---- MODULE Spec2Model ----
(***************************************************************************)
(* hooto/hmetrics: the Prometheus text encoder (prometheus.go) and the     *)
(* label-keyed metric maps, the complex-metric registry and the bucket     *)
(* generator (metrics.go).                                                 *)
(*                                                                         *)
(* Strings are sequences of byte values, so that Go's string order (used   *)
(* by sort.Strings and by the snapshot comparator) and the byte-wise       *)
(* escaper are computed and not assumed.  float64 values are integers      *)
(* between -FMax and FMax, plus PosInf and NaN; a product above FMax       *)
(* overflows to PosInf as IEEE-754 multiplication does.                    *)
(***************************************************************************)
EXTENDS Integers, Sequences, FiniteSets, TLC

VARIABLES
    ms,              \* the caller's snapshot slice handed to the encoder
    input,           \* history: the slice as it was before the first call
    buf,             \* the bytes.Buffer the last call wrote, as lines
    prev,            \* history: the buffer of the call before
    calls,           \* number of encoder calls made on ms
    mu,              \* holder of the registry mutex, or NoProc
    complexMetrics,  \* the registry map: name -> bundle
    engine,          \* external engine: RegisterMap calls, per metric name
    series,          \* external engine: per-series state, per bundle
    nextBundle,      \* allocator of complexMap objects
    pc,              \* per thread position
    local,           \* per thread locals of RegisterComplexMap
    held,            \* per thread: bundles returned to it, by name
    lastAdd,         \* history: arguments of the last complexMap.Add
    nAdds,           \* number of complexMap.Add calls made
    body,            \* body written by the last HttpHandler call
    nbArgs,          \* arguments of the NewBuckets call
    nbResult,        \* what NewBuckets returned
    nbPc             \* "call", "returned" or "panicked"

encVars == <<ms, input, buf, prev, calls>>
regVars == <<mu, complexMetrics, engine, series, nextBundle, pc, local, held,
             lastAdd, nAdds, body>>
nbVars  == <<nbArgs, nbResult, nbPc>>
vars    == <<ms, input, buf, prev, calls, mu, complexMetrics, engine, series,
             nextBundle, pc, local, held, lastAdd, nAdds, body,
             nbArgs, nbResult, nbPc>>

----------------------------------------------------------------------------
(* Bounds *)
FMax     == 20     \* largest finite float64 of the model
MaxSnaps == 3      \* longest snapshot slice
MaxCalls == 2      \* encoder calls on one slice
MaxCount == 1      \* largest per-bucket observation count
MaxLen   == 3      \* longest label value
MaxAdds  == 2      \* complexMap.Add calls in one behaviour
MaxHists == 2      \* longest slice of histogram or labelled snapshots
MaxBuckets == 5    \* largest count passed to NewBuckets

----------------------------------------------------------------------------
(* float64 *)
PosInf == FMax + 1
NaN    == 0 - (FMax + 2)

FLess(x, y) == x # NaN /\ y # NaN /\ x < y
FLessEq(x, y) == x # NaN /\ y # NaN /\ x <= y
FGreater(x, y) == FLess(y, x)
FNotEq(x, y) == x = NaN \/ y = NaN \/ x # y

\* x * y for the operands NewBuckets multiplies (x > 0, y > 1, or NaN)
FMul(x, y) ==
    IF x = NaN \/ y = NaN THEN NaN
    ELSE IF x = PosInf \/ y = PosInf THEN PosInf
    ELSE IF x * y > FMax THEN PosInf
    ELSE x * y

----------------------------------------------------------------------------
(* strings as byte sequences *)
Min(a, b) == IF a < b THEN a ELSE b

\* Go's < on strings: byte-wise lexicographic, a proper prefix is smaller
StrLess(a, b) ==
    \E k \in 1..(Min(Len(a), Len(b)) + 1) :
        /\ \A i \in 1..(k - 1) : a[i] = b[i]
        /\ \/ k > Len(a) /\ k <= Len(b)
           \/ k <= Len(a) /\ k <= Len(b) /\ a[k] < b[k]

SeqsUpTo(S, n) == UNION {[1..k -> S] : k \in 0..n}

RECURSIVE Concat(_)
Concat(ss) == IF ss = <<>> THEN <<>> ELSE Head(ss) \o Concat(Tail(ss))

sLe       == <<108, 101>>              \* "le"
sItem     == <<105, 116, 101, 109>>    \* "item"
sName     == <<110, 97, 109, 101>>     \* "name"
sPlusInf  == <<43, 73, 110, 102>>      \* "+Inf"
sNaN      == <<78, 97, 78>>            \* "NaN"

RECURSIVE Digits(_)
Digits(n) == IF n < 10 THEN <<48 + n>> ELSE Digits(n \div 10) \o <<48 + (n % 10)>>

\* strconv.FormatFloat(v, 'f', -1, 64) on the integral floats of the model
FormatFloat(v) ==
    IF v = NaN THEN sNaN
    ELSE IF v = PosInf THEN sPlusInf
    ELSE IF v < 0 THEN <<45>> \o Digits(0 - v)
    ELSE Digits(v)

\* mutant: the backslash itself is not escaped
EscapeByteNoBackslash(c) ==
    IF c = 10 THEN <<92, 110>>
    ELSE IF c = 34 THEN <<92, 34>>
    ELSE <<c>>

\* escaper: strings.NewReplacer("\\", `\\`, "\n", `\n`, "\"", `\"`)
EscapeByte(c) ==
    IF c = 92 THEN <<92, 92>>
    ELSE IF c = 10 THEN <<92, 110>>
    ELSE IF c = 34 THEN <<92, 34>>
    ELSE <<c>>

RECURSIVE escaper(_)
escaper(s) == IF s = <<>> THEN <<>> ELSE EscapeByte(Head(s)) \o escaper(Tail(s))

----------------------------------------------------------------------------
(* prometheus.go: the encoder *)

COUNTER   == "COUNTER"
GAUGE     == "GAUGE"
HISTOGRAM == "HISTOGRAM"

NoLabels == [l \in {} |-> <<>>]

MetricSnapshot(id, name, help, type, value, labels, bounds, counts) ==
    [Id |-> id, Name |-> name, Help |-> help, Type |-> type, Value |-> value,
     Labels |-> labels, Bounds |-> bounds, Counts |-> counts]

\* mutant: the comparator forgets the tie-break by id
LessByName(a, b) == StrLess(a.Name, b.Name)

\* the comparator of sort.SliceStable: by name, breaking ties by id
Less(a, b) ==
    IF a.Name # b.Name THEN StrLess(a.Name, b.Name) ELSE a.Id < b.Id

\* mutant: an unstable sort, x goes in front of its equals
RECURSIVE InsertBeforeEquals(_, _)
InsertBeforeEquals(x, s) ==
    IF s = <<>> THEN <<x>>
    ELSE IF ~Less(Head(s), x) THEN <<x>> \o s
    ELSE <<Head(s)>> \o InsertBeforeEquals(x, Tail(s))

\* x goes in front of the first element it is less than, so behind its equals
RECURSIVE InsertStable(_, _)
InsertStable(x, s) ==
    IF s = <<>> THEN <<x>>
    ELSE IF Less(x, Head(s)) THEN <<x>> \o s
    ELSE <<Head(s)>> \o InsertStable(x, Tail(s))

RECURSIVE SortSliceStable(_)
SortSliceStable(s) ==
    IF s = <<>> THEN <<>>
    ELSE InsertStable(s[Len(s)], SortSliceStable(SubSeq(s, 1, Len(s) - 1)))

StrMin(S) == CHOOSE x \in S : \A y \in S : x = y \/ StrLess(x, y)

\* sort.Strings(maps.Keys(m)): the keys, whatever order the map yields them in
RECURSIVE SortStrings(_)
SortStrings(S) ==
    IF S = {} THEN <<>>
    ELSE <<StrMin(S)>> \o SortStrings(S \ {StrMin(S)})

Line(kind, name, suffix, labels, value) ==
    [kind |-> kind, name |-> name, suffix |-> suffix, labels |-> labels,
     value |-> value]

BlankLine == Line("blank", <<>>, "", <<>>, <<>>)

StrMax(S) == CHOOSE x \in S : \A y \in S : x = y \/ StrLess(y, x)

\* the keys in descending order, for the mutants that skip a sort
RECURSIVE KeysDescending(_)
KeysDescending(S) ==
    IF S = {} THEN <<>>
    ELSE <<StrMax(S)>> \o KeysDescending(S \ {StrMax(S)})

\* mutant: the label names are not sorted
writeLabelsUnsorted(labels, extraLabelName, extraLabelItem) ==
    IF Cardinality(DOMAIN labels) = 0 /\ extraLabelName = <<>> THEN <<>>
    ELSE LET keys == KeysDescending(DOMAIN labels)
         IN  [i \in 1..Len(keys) |-> <<keys[i], escaper(labels[keys[i]])>>]
             \o (IF Len(extraLabelName) > 0
                 THEN <<<<extraLabelName, FormatFloat(extraLabelItem)>>>>
                 ELSE <<>>)

\* the text between the braces, as (name, value) pairs in emission order;
\* nothing at all is written when there is no label and no extra label
writeLabels(labels, extraLabelName, extraLabelItem) ==
    IF Cardinality(DOMAIN labels) = 0 /\ extraLabelName = <<>> THEN <<>>
    ELSE LET sortedLabels == SortStrings(DOMAIN labels)
         IN  [i \in 1..Len(sortedLabels) |->
                  <<sortedLabels[i], escaper(labels[sortedLabels[i]])>>]
             \o (IF Len(extraLabelName) > 0
                 THEN <<<<extraLabelName, FormatFloat(extraLabelItem)>>>>
                 ELSE <<>>)

writeEntry(metricName, value, suffix, labels, extraLabelName, extraLabelItem) ==
    Line("sample", metricName, suffix,
         writeLabels(labels, extraLabelName, extraLabelItem),
         FormatFloat(value))

\* count after the loop has added Counts[1..k]
RECURSIVE CumulativeCount(_, _)
CumulativeCount(counts, k) ==
    IF k = 0 THEN 0 ELSE CumulativeCount(counts, k - 1) + counts[k]

HistogramLines(metric) ==
    LET labels == metric.Labels
        n      == Len(metric.Bounds)
        hasInf == \E idx \in 1..n : metric.Bounds[idx] = PosInf
        count  == CumulativeCount(metric.Counts, n + 1)
    IN  [idx \in 1..n |->
            writeEntry(metric.Name, CumulativeCount(metric.Counts, idx),
                       "_bucket", labels, sLe, metric.Bounds[idx])]
        \o (IF ~hasInf
            THEN <<writeEntry(metric.Name, count, "_bucket", labels, sLe, PosInf)>>
            ELSE <<>>)
        \o <<writeEntry(metric.Name, metric.Value, "_sum", labels, <<>>, 0),
             writeEntry(metric.Name, count, "_count", labels, <<>>, 0)>>

TypeWord(type) ==
    IF type = COUNTER THEN <<99, 111, 117, 110, 116, 101, 114>>
    ELSE IF type = GAUGE THEN <<103, 97, 117, 103, 101>>
    ELSE <<104, 105, 115, 116, 111, 103, 114, 97, 109>>

\* one name group: header, then every series of the group
translateMetrics(metrics) ==
    LET metric      == metrics[1]
        isHistogram == metric.Type = HISTOGRAM
        SeriesLines(idx) ==
            (IF isHistogram
             THEN HistogramLines(metrics[idx])
             ELSE <<writeEntry(metrics[idx].Name, metrics[idx].Value, "",
                               metrics[idx].Labels, <<>>, 0)>>)
            \o (IF isHistogram /\ idx # Len(metrics) THEN <<BlankLine>> ELSE <<>>)
    IN  (IF Len(metric.Help) > 0
         THEN <<Line("help", metric.Name, "", <<>>, metric.Help)>>
         ELSE <<>>)
        \o <<Line("type", metric.Name, "", <<>>, TypeWord(metric.Type))>>
        \o Concat([idx \in 1..Len(metrics) |-> SeriesLines(idx)])
        \o <<BlankLine>>

\* mutant: the group names are not sorted
unsortedUserMetrics(sorted) == KeysDescending({sorted[i].Name : i \in 1..Len(sorted)})

\* the names in the order the groups are written
sortedUserMetrics(sorted) == SortStrings({sorted[i].Name : i \in 1..Len(sorted)})

\* userMetrics[name]: the snapshots of one name, in slice order
userMetrics(sorted, name) == SelectSeq(sorted, LAMBDA m : m.Name = name)

\* what translateMetricsToPrometheusTextFormat writes to an empty buffer
translateMetricsToPrometheusTextFormat(list) ==
    LET sorted == SortSliceStable(list)
        names  == sortedUserMetrics(sorted)
    IN  Concat([g \in 1..Len(names) |-> translateMetrics(userMetrics(sorted, names[g]))])

\* a call on the caller's slice: the slice is sorted in place, the buffer
\* (a fresh one, as HttpHandler's) receives the text
Translate ==
    /\ calls < MaxCalls
    /\ ms' = SortSliceStable(ms)
    /\ buf' = translateMetricsToPrometheusTextFormat(ms)
    /\ prev' = buf
    /\ calls' = calls + 1
    /\ UNCHANGED <<input, regVars, nbVars>>

----------------------------------------------------------------------------
(* metrics.go: the complex-metric registry and the recording calls *)

Threads == {"t1", "t2"}
NoProc  == "none"

sX == <<120>>     \* "x"
sY == <<121>>     \* "y"
RegNames == {sX, sY}

_counter   == <<95, 99, 111, 117, 110, 116, 101, 114>>            \* "_counter"
_gauge     == <<95, 103, 97, 117, 103, 101>>                      \* "_gauge"
_histogram == <<95, 104, 105, 115, 116, 111, 103, 114, 97, 109>>  \* "_histogram"

\* the (help, buckets) arguments callers pass to RegisterComplexMap
RegArgs == {[help |-> <<104>>, buckets |-> <<1>>],
            [help |-> <<72>>,  buckets |-> <<1, 2>>]}

\* Label{name, item}
Label(name, item) == <<name, item>>
Labels == {Label(<<110>>, <<105>>), Label(<<110>>, <<106>>)}

\* the values callers pass to complexMap.Add; durations are nanoseconds
CounterArgs  == {NaN, 0 - 1, 0, 1}
GaugeArgs    == {NaN, 0 - 1, 0, 1}
DurationArgs == {0 - 1, 0, 1500000000}
AddArgs == [l : Labels, c : CounterArgs, g : GaugeArgs, h : DurationArgs]

\* the recordings made while registrations are in progress
RegAddArgs == {[l |-> Label(<<110>>, <<105>>), c |-> 1, g |-> 0, h |-> 0]}

\* the snapshots metrics.Snapshot() hands to HttpHandler
ScrapeSnapshots ==
    {<<>>,
     <<MetricSnapshot(2, sX \o _gauge, <<104>>, GAUGE, 1, NoLabels, <<>>, <<>>),
       MetricSnapshot(1, sX \o _counter, <<104>>, COUNTER, 1, NoLabels, <<>>, <<>>)>>}

\* metrics.RegisterMap: the engine records the call under the metric name
\* and returns a new map, here identified by the bundle that owns it
RegisterMap(eng, type, name, help, buckets, owner) ==
    LET reg == [type |-> type, help |-> help, buckets |-> buckets, owner |-> owner]
    IN  IF name \in DOMAIN eng
        THEN [eng EXCEPT ![name] = Append(@, reg)]
        ELSE eng @@ (name :> <<reg>>)

\* lines 55-86: RegisterCounterMap, RegisterGaugeMap and RegisterHistogramMap
\* wrap the map the engine returns; the maps a program registers this way at
\* start-up are the map 0 of each kind
StandaloneMap == 0
sC == <<99>>      \* "c"
sG == <<103>>     \* "g"
sH == <<104>>     \* "h"
RegisterCounterMap(eng, name, help) ==
    RegisterMap(eng, COUNTER, name, help, <<>>, StandaloneMap)
RegisterGaugeMap(eng, name, help) ==
    RegisterMap(eng, GAUGE, name, help, <<>>, StandaloneMap)
RegisterHistogramMap(eng, name, help, buckets) ==
    RegisterMap(eng, HISTOGRAM, name, help, buckets, StandaloneMap)

\* the locals of a thread that is not inside RegisterComplexMap
NoLocals == [name |-> <<>>, help |-> <<>>, buckets |-> <<>>, m |-> 0, ok |-> FALSE]

\* mutant: the lock is taken without waiting for its holder
LockNoWait(t) == mu' = t

\* mu.Lock(): blocks while another thread holds the mutex
Lock(t) == mu = NoProc /\ mu' = t

\* defer mu.Unlock()
Unlock(t) == mu' = NoProc

\* line 159: entry of RegisterComplexMap(name, help, buckets)
RegisterComplexMap_Lock(t) ==
    /\ pc[t] = "idle"
    /\ Lock(t)
    /\ \E name \in RegNames, a \in RegArgs :
           local' = [local EXCEPT ![t] = [name |-> name, help |-> a.help,
                                         buckets |-> a.buckets, m |-> 0, ok |-> FALSE]]
    /\ pc' = [pc EXCEPT ![t] = "lookup"]
    /\ UNCHANGED <<complexMetrics, engine, series, nextBundle, held, lastAdd,
                   nAdds, body, encVars, nbVars>>

\* line 161: m, ok := complexMetrics[name]
RegisterComplexMap_Lookup(t) ==
    /\ pc[t] = "lookup"
    /\ LET name == local[t].name
           ok   == name \in DOMAIN complexMetrics
       IN  /\ local' = [local EXCEPT ![t].ok = ok,
                                     ![t].m = IF ok THEN complexMetrics[name] ELSE 0]
           /\ pc' = [pc EXCEPT ![t] = IF ok THEN "return" ELSE "create"]
    /\ UNCHANGED <<mu, complexMetrics, engine, series, nextBundle, held, lastAdd,
                   nAdds, body, encVars, nbVars>>

\* lines 163-183: the three RegisterMap calls and the store
RegisterComplexMap_Create(t) ==
    /\ pc[t] = "create"
    /\ LET name == local[t].name
           help == local[t].help
           m    == nextBundle
           e1   == RegisterMap(engine, COUNTER, name \o _counter, help, <<>>, m)
           e2   == RegisterMap(e1, GAUGE, name \o _gauge, help, <<>>, m)
           e3   == RegisterMap(e2, HISTOGRAM, name \o _histogram, help,
                               local[t].buckets, m)
       IN  /\ engine' = e3
           /\ nextBundle' = nextBundle + 1
           /\ complexMetrics' =
                  IF name \in DOMAIN complexMetrics
                  THEN [complexMetrics EXCEPT ![name] = m]
                  ELSE complexMetrics @@ (name :> m)
           /\ local' = [local EXCEPT ![t].m = m]
    /\ pc' = [pc EXCEPT ![t] = "return"]
    /\ UNCHANGED <<mu, series, held, lastAdd, nAdds, body, encVars, nbVars>>

\* line 185: return m, the deferred Unlock runs
RegisterComplexMap_Return(t) ==
    /\ pc[t] = "return"
    /\ Unlock(t)
    /\ held' = [held EXCEPT ![t] = @ \cup {<<local[t].name, local[t].m>>}]
    /\ local' = [local EXCEPT ![t] = NoLocals]
    /\ pc' = [pc EXCEPT ![t] = "idle"]
    /\ UNCHANGED <<complexMetrics, engine, series, nextBundle, lastAdd,
                   nAdds, body, encVars, nbVars>>

\* Go's integer division and remainder truncate toward zero
GoDiv(a, b) == IF a >= 0 THEN a \div b ELSE 0 - ((0 - a) \div b)
GoRem(a, b) == a - b * GoDiv(a, b)

\* time.Duration.Seconds(): float64(d / Second) + float64(d % Second) / 1e9,
\* kept as its two terms
Seconds(d) == [sec |-> GoDiv(d, 1000000000), nsec |-> GoRem(d, 1000000000)]

\* float64 addition of a delta to a series value
FAdd(x, y) ==
    IF x = NaN \/ y = NaN THEN NaN
    ELSE IF x = PosInf \/ y = PosInf THEN PosInf
    ELSE IF x + y > FMax THEN PosInf
    ELSE x + y

\* MetricMap.Get(l): the series of l, created at its zero value on first use
Get(map, key, zero) == IF key \in DOMAIN map THEN map ELSE map @@ (key :> zero)

\* mutant: a zero duration is skipped like a negative one
AddEffectPositiveOnly(it, l, c, g, h) ==
    LET key == <<it, l>>
    IN  series' =
          [counter   |-> IF FGreater(c, 0)
                         THEN [Get(series.counter, key, 0) EXCEPT ![key] = FAdd(@, c)]
                         ELSE series.counter,
           gauge     |-> IF FNotEq(g, 0)
                         THEN [Get(series.gauge, key, 0) EXCEPT ![key] = FAdd(@, g)]
                         ELSE series.gauge,
           histogram |-> IF h > 0
                         THEN [Get(series.histogram, key, <<>>) EXCEPT
                                   ![key] = Append(@, Seconds(h))]
                         ELSE series.histogram]

\* lines 188-200: complexMap.Add on the bundle `it`
AddEffect(it, l, c, g, h) ==
    LET key == <<it, l>>
    IN  series' =
          [counter   |-> IF FGreater(c, 0)
                         THEN [Get(series.counter, key, 0) EXCEPT ![key] = FAdd(@, c)]
                         ELSE series.counter,
           gauge     |-> IF FNotEq(g, 0)
                         THEN [Get(series.gauge, key, 0) EXCEPT ![key] = FAdd(@, g)]
                         ELSE series.gauge,
           histogram |-> IF h >= 0
                         THEN [Get(series.histogram, key, <<>>) EXCEPT
                                   ![key] = Append(@, Seconds(h))]
                         ELSE series.histogram]

\* mutant: the recording call takes the registry lock for its duration
complexMap_AddLocked(t, args) ==
    /\ mu = NoProc
    /\ pc[t] = "idle"
    /\ nAdds < MaxAdds
    /\ \E nb \in held[t], a \in args :
           /\ AddEffect(nb[2], a.l, a.c, a.g, a.h)
           /\ lastAdd' = [it |-> nb[2], l |-> a.l, c |-> a.c, g |-> a.g, h |-> a.h]
    /\ nAdds' = nAdds + 1
    /\ UNCHANGED <<mu, complexMetrics, engine, nextBundle, pc, local, held,
                   body, encVars, nbVars>>

\* a thread records through a bundle RegisterComplexMap returned to it;
\* the call takes no lock
complexMap_Add(t, args) ==
    /\ pc[t] = "idle"
    /\ nAdds < MaxAdds
    /\ \E nb \in held[t], a \in args :
           /\ AddEffect(nb[2], a.l, a.c, a.g, a.h)
           /\ lastAdd' = [it |-> nb[2], l |-> a.l, c |-> a.c, g |-> a.g, h |-> a.h]
    /\ nAdds' = nAdds + 1
    /\ UNCHANGED <<mu, complexMetrics, engine, nextBundle, pc, local, held,
                   body, encVars, nbVars>>

\* the label and the value of the calls on the standalone maps
MapLabel == Label(<<110>>, <<105>>)
MapValue == 1

NoAdd == [it |-> 0, l |-> Label(<<>>, <<>>), c |-> 0, g |-> 0, h |-> 0]

\* a call on a standalone map: it takes no lock
MapCall(t, kind, new) ==
    /\ pc[t] = "idle"
    /\ nAdds < MaxAdds
    /\ series' = [series EXCEPT ![kind] = new]
    /\ nAdds' = nAdds + 1
    /\ lastAdd' = NoAdd
    /\ UNCHANGED <<mu, complexMetrics, engine, nextBundle, pc, local, held,
                   body, encVars, nbVars>>

\* lines 124-126: it.metric.Get(Label{name, item}).Add(v)
counterMap_Add(t) ==
    LET key == <<StandaloneMap, MapLabel>>
    IN  MapCall(t, "counter",
                [Get(series.counter, key, 0) EXCEPT ![key] = FAdd(@, MapValue)])

\* lines 128-130: it.metric.Get(Label{name, item}).Set(v)
counterMap_Set(t) ==
    LET key == <<StandaloneMap, MapLabel>>
    IN  MapCall(t, "counter",
                [Get(series.counter, key, 0) EXCEPT ![key] = MapValue])

\* lines 136-138
gaugeMap_Add(t) ==
    LET key == <<StandaloneMap, MapLabel>>
    IN  MapCall(t, "gauge",
                [Get(series.gauge, key, 0) EXCEPT ![key] = FAdd(@, MapValue)])

\* lines 140-142
gaugeMap_Set(t) ==
    LET key == <<StandaloneMap, MapLabel>>
    IN  MapCall(t, "gauge",
                [Get(series.gauge, key, 0) EXCEPT ![key] = MapValue])

\* lines 148-150: it.metric.Get(Label{name, item}).Put(v), v in seconds
histogramMap_Add(t) ==
    LET key == <<StandaloneMap, MapLabel>>
    IN  MapCall(t, "histogram",
                [Get(series.histogram, key, <<>>) EXCEPT
                     ![key] = Append(@, [sec |-> MapValue, nsec |-> 0])])

\* lines 106-110: a scrape translates the engine's snapshot into the body
HttpHandler(t) ==
    /\ pc[t] = "idle"
    /\ \E snap \in ScrapeSnapshots :
           body' = translateMetricsToPrometheusTextFormat(snap)
    /\ UNCHANGED <<mu, complexMetrics, engine, series, nextBundle, pc, local,
                   held, lastAdd, nAdds, encVars, nbVars>>

----------------------------------------------------------------------------
(* metrics.go: the bucket generator *)

NoBuckets == <<>>

\* lines 98-102: buckets[i] = start; start *= factor
RECURSIVE BucketsLoop(_, _, _)
BucketsLoop(start, factor, n) ==
    IF n <= 0 THEN <<>>
    ELSE <<start>> \o BucketsLoop(FMul(start, factor), factor, n - 1)

\* mutant: a factor of exactly 1 is let through
NewBucketsFactorOne(start, factor, count) ==
    IF count < 1 THEN [panic |-> TRUE, buckets |-> NoBuckets]
    ELSE IF FLessEq(start, 0) THEN [panic |-> TRUE, buckets |-> NoBuckets]
    ELSE IF FLess(factor, 1) THEN [panic |-> TRUE, buckets |-> NoBuckets]
    ELSE [panic |-> FALSE, buckets |-> BucketsLoop(start, factor, count)]

\* lines 88-104
NewBuckets(start, factor, count) ==
    IF count < 1 THEN [panic |-> TRUE, buckets |-> NoBuckets]
    ELSE IF FLessEq(start, 0) THEN [panic |-> TRUE, buckets |-> NoBuckets]
    ELSE IF FLessEq(factor, 1) THEN [panic |-> TRUE, buckets |-> NoBuckets]
    ELSE [panic |-> FALSE, buckets |-> BucketsLoop(start, factor, count)]

NewBucketsCall ==
    /\ nbPc = "call"
    /\ LET r == NewBuckets(nbArgs.start, nbArgs.factor, nbArgs.count)
       IN  /\ nbResult' = r.buckets
           /\ nbPc' = IF r.panic THEN "panicked" ELSE "returned"
    /\ UNCHANGED <<nbArgs, encVars, regVars>>

----------------------------------------------------------------------------
(* initial states *)

EmptyMap == [k \in {} |-> 0]

\* the engine once the program's package-level maps are registered
StartupEngine ==
    RegisterHistogramMap(
        RegisterGaugeMap(RegisterCounterMap(EmptyMap, sC, <<>>), sG, <<>>),
        sH, <<>>, <<1>>)

EncIdle ==
    /\ ms = <<>> /\ input = <<>> /\ buf = <<>> /\ prev = <<>> /\ calls = 0

RegIdle ==
    /\ mu = NoProc
    /\ complexMetrics = EmptyMap
    /\ engine = StartupEngine
    /\ series = [counter |-> EmptyMap, gauge |-> EmptyMap, histogram |-> EmptyMap]
    /\ nextBundle = 1
    /\ pc = [t \in Threads |-> "idle"]
    /\ local = [t \in Threads |-> NoLocals]
    /\ held = [t \in Threads |-> {}]
    /\ lastAdd = NoAdd
    /\ nAdds = 0
    /\ body = <<>>

NbIdle ==
    /\ nbArgs = [start |-> 1, factor |-> 2, count |-> 1]
    /\ nbResult = NoBuckets
    /\ nbPc = "returned"

EncInit(lists) ==
    /\ ms \in lists
    /\ input = ms
    /\ buf = <<>> /\ prev = <<>> /\ calls = 0
    /\ RegIdle /\ NbIdle

sA  == <<97>>        \* "a"
sAB == <<97, 98>>    \* "ab"
sB  == <<98>>        \* "b"
Ids == {1, 2}

\* snapshots of three metrics; the engine gives a metric name one type
OrderSnapshots ==
    {MetricSnapshot(id, sA, <<>>, COUNTER, v, NoLabels, <<>>, <<>>) :
         id \in Ids, v \in {1, 2}}
    \cup {MetricSnapshot(id, sAB, help, GAUGE, 1, (sItem :> <<120>>), <<>>, <<>>) :
         id \in Ids, help \in {<<>>, <<104>>}}
    \cup {MetricSnapshot(id, sB, <<>>, HISTOGRAM, 1, NoLabels, <<1>>, c) :
         id \in Ids, c \in {<<1, 0>>, <<0, 1>>}}

\* histogram snapshots: len(Counts) = len(Bounds) + 1, Bounds strictly
\* increasing, possibly ending in +Inf
BoundSeqs == {<<>>, <<1>>, <<1, 2>>, <<1, PosInf>>, <<PosInf>>}
HistSnapshots ==
    UNION {{MetricSnapshot(1, sB, <<>>, HISTOGRAM, 3, NoLabels, b, c) :
               c \in [1..(Len(b) + 1) -> 0..MaxCount]} : b \in BoundSeqs}

\* snapshots with every set of explicit label names
LabelNames == {sA, sItem, sName}
LabelSnapshots ==
    UNION {{MetricSnapshot(1, sA, <<>>, COUNTER, 1, [l \in S |-> <<118>>], <<>>, <<>>),
            MetricSnapshot(1, sB, <<>>, HISTOGRAM, 1, [l \in S |-> <<118>>],
                           <<1>>, <<1, 0>>)} : S \in SUBSET LabelNames}

\* label values over backslash, quote, line feed, 'n' and 'a'
EscAlphabet == {92, 34, 10, 110, 97}
EscSnapshots ==
    {MetricSnapshot(1, sA, <<>>, COUNTER, 1, (sItem :> v), <<>>, <<>>) :
         v \in SeqsUpTo(EscAlphabet, MaxLen)}

StartArgs  == {NaN, 0 - 1, 0, 1, 2, 3, FMax, PosInf}
FactorArgs == {NaN, 0, 1, 2, 3, PosInf}
CountArgs  == (0 - 1)..MaxBuckets

InitOrder  == EncInit(SeqsUpTo(OrderSnapshots, MaxSnaps))
InitHist   == EncInit(SeqsUpTo(HistSnapshots, MaxHists))
InitLabels == EncInit(SeqsUpTo(LabelSnapshots, MaxHists))
InitEscape == EncInit({<<s>> : s \in EscSnapshots})

InitBuckets ==
    /\ nbArgs \in [start : StartArgs, factor : FactorArgs, count : CountArgs]
    /\ nbResult = NoBuckets
    /\ nbPc = "call"
    /\ EncIdle /\ RegIdle

Init == EncIdle /\ RegIdle /\ NbIdle

\* thread t1 has registered "x" and got bundle 1; nothing is recorded yet
InitAdd ==
    /\ mu = NoProc
    /\ complexMetrics = (sX :> 1)
    /\ engine = RegisterMap(RegisterMap(RegisterMap(StartupEngine,
                     COUNTER, sX \o _counter, <<104>>, <<>>, 1),
                     GAUGE, sX \o _gauge, <<104>>, <<>>, 1),
                     HISTOGRAM, sX \o _histogram, <<104>>, <<1>>, 1)
    /\ series = [counter |-> EmptyMap, gauge |-> EmptyMap, histogram |-> EmptyMap]
    /\ nextBundle = 2
    /\ pc = [t \in Threads |-> "idle"]
    /\ local = [t \in Threads |-> NoLocals]
    /\ held = [t \in Threads |-> IF t = "t1" THEN {<<sX, 1>>} ELSE {}]
    /\ lastAdd = NoAdd
    /\ nAdds = 0
    /\ body = <<>>
    /\ EncIdle /\ NbIdle

----------------------------------------------------------------------------
(* specifications *)

Next ==
    \E t \in Threads :
        \/ RegisterComplexMap_Lock(t)
        \/ RegisterComplexMap_Lookup(t)
        \/ RegisterComplexMap_Create(t)
        \/ RegisterComplexMap_Return(t)
        \/ complexMap_Add(t, RegAddArgs)
        \/ counterMap_Add(t)
        \/ counterMap_Set(t)
        \/ gaugeMap_Add(t)
        \/ gaugeMap_Set(t)
        \/ histogramMap_Add(t)
        \/ HttpHandler(t)

NextEnc == Translate

NextAdd == \E t \in Threads : complexMap_Add(t, AddArgs)

NextBuckets == NewBucketsCall

\* the registry, the recording calls and the scrape handler, two threads
Spec == Init /\ [][Next]_vars

\* the encoder on slices of snapshots of three metrics
SpecOrder == InitOrder /\ [][NextEnc]_vars

\* the encoder on histogram snapshots
SpecHist == InitHist /\ [][NextEnc]_vars

\* the encoder on snapshots with every set of label names
SpecLabels == InitLabels /\ [][NextEnc]_vars

\* the encoder on label values that need escaping
SpecEscape == InitEscape /\ [][NextEnc]_vars

\* recordings through a registered bundle, with every kind of argument
SpecAdd == InitAdd /\ [][NextAdd]_vars

\* NewBuckets on every argument triple
SpecBuckets == InitBuckets /\ [][NextBuckets]_vars

----------------------------------------------------------------------------
(* properties of the encoder *)

\* the slice a permutation f of the positions makes of list
Permuted(list, f) == [i \in 1..Len(list) |-> list[f[i]]]
PermutationsOf(list) == {Permuted(list, f) : f \in Permutations(1..Len(list))}

\* the order the encoder is to write series in: by name, then by id
KeyBefore(a, b) == StrLess(a.Name, b.Name) \/ (a.Name = b.Name /\ a.Id < b.Id)
KeyEqual(a, b) == a.Name = b.Name /\ a.Id = b.Id

DistinctKeys(list) ==
    \A i, j \in 1..Len(list) : i # j => ~KeyEqual(list[i], list[j])

IsSample(line) == line.kind = "sample"
IsBucket(line) == line.kind = "sample" /\ line.suffix = "_bucket"
LabelNamesOf(line) == [i \in 1..Len(line.labels) |-> line.labels[i][1]]
Ascending(names) ==
    \A i, j \in 1..Len(names) : i < j => StrLess(names[i], names[j])

\* the number a formatted value stands for
RECURSIVE ParseDigits(_)
ParseDigits(s) ==
    IF s = <<>> THEN 0
    ELSE 10 * ParseDigits(SubSeq(s, 1, Len(s) - 1)) + (s[Len(s)] - 48)
ParseFloat(s) == IF s = sPlusInf THEN PosInf ELSE ParseDigits(s)

\* the bucket lines of the series whose _count line is line k: the lines
\* from the last non-bucket line before the _sum line up to the _sum line
BucketLinesOf(k) ==
    LET first == CHOOSE j \in 1..(k - 1) :
                     /\ \A i \in j..(k - 2) : IsBucket(buf[i])
                     /\ (j = 1 \/ ~IsBucket(buf[j - 1]))
    IN  first..(k - 2)

\* C1: the cumulative counts on the _bucket lines of every histogram series
\* are non-decreasing in bound order, and the last bucket line is the
\* le="+Inf" one and carries the sum of all Counts, the value of _count
C1_PlusInfBucketEqualsCount ==
    calls >= 1 =>
        \A k \in 1..Len(buf) :
            (IsSample(buf[k]) /\ buf[k].suffix = "_count") =>
                LET bs == BucketLinesOf(k)
                IN  /\ \A i, j \in bs : i < j =>
                           ParseFloat(buf[i].value) <= ParseFloat(buf[j].value)
                    /\ bs # {}
                    /\ buf[k - 2].labels[Len(buf[k - 2].labels)] = <<sLe, sPlusInf>>
                    /\ buf[k - 2].value = buf[k].value

\* C2 as stated: every permutation of the slice gives the text of the slice
C2_AnyPermutationSameText ==
    calls >= 1 =>
        \A p \in PermutationsOf(input) :
            translateMetricsToPrometheusTextFormat(p) = buf

\* C2: every permutation of a slice in which no two snapshots share both
\* name and id gives the text of the slice
C2_PermutationInvariance ==
    (calls >= 1 /\ DistinctKeys(input)) =>
        \A p \in PermutationsOf(input) :
            translateMetricsToPrometheusTextFormat(p) = buf

C2_Witness ==
    /\ calls >= 1
    /\ DistinctKeys(input)
    /\ Len(input) = 3
    /\ input[1].Name = input[3].Name
    /\ input[3].Id < input[1].Id
    /\ StrLess(input[2].Name, input[1].Name)

\* C3 as stated: on every line the label names, le included, are ascending
C3_AllLabelNamesAscending ==
    calls >= 1 =>
        \A k \in 1..Len(buf) : Ascending(LabelNamesOf(buf[k]))

\* C3: on every line the explicit label names are in ascending order; a
\* bucket line lists le after them, wherever le falls in that order, and no
\* other line has the synthetic le
C3_ExplicitLabelNamesAscending ==
    calls >= 1 =>
        \A k \in 1..Len(buf) :
            LET names == LabelNamesOf(buf[k])
                n     == Len(names)
                OfSnapshot(explicit) ==
                    \E i \in 1..Len(input) :
                        {explicit[j] : j \in 1..Len(explicit)} = DOMAIN input[i].Labels
            IN  IF IsBucket(buf[k])
                THEN /\ n >= 1
                     /\ names[n] = sLe
                     /\ Ascending(SubSeq(names, 1, n - 1))
                     /\ OfSnapshot(SubSeq(names, 1, n - 1))
                     /\ (\A i \in 1..(n - 1) : StrLess(names[i], sLe))
                            => Ascending(names)
                ELSE /\ Ascending(names)
                     /\ IsSample(buf[k]) => OfSnapshot(names)

C3_Witness ==
    /\ calls >= 1
    /\ \E k \in 1..Len(buf) :
           /\ IsBucket(buf[k])
           /\ LabelNamesOf(buf[k]) = <<sA, sItem, sName, sLe>>

\* the lines written for one snapshot
SeriesText(m) ==
    IF m.Type = HISTOGRAM
    THEN HistogramLines(m)
    ELSE <<writeEntry(m.Name, m.Value, "", m.Labels, <<>>, 0)>>

RECURSIVE Unescape(_)
Unescape(s) ==
    IF s = <<>> THEN <<>>
    ELSE IF Head(s) = 92 /\ Len(s) >= 2
         THEN (IF s[2] = 110 THEN <<10>> ELSE <<s[2]>>) \o Unescape(Tail(Tail(s)))
         ELSE <<Head(s)>> \o Unescape(Tail(s))

\* no raw line feed, no quote that is not escaped, only the three escapes
RECURSIVE WellEscaped(_)
WellEscaped(s) ==
    IF s = <<>> THEN TRUE
    ELSE IF Head(s) = 92
         THEN Len(s) >= 2 /\ s[2] \in {92, 110, 34} /\ WellEscaped(Tail(Tail(s)))
         ELSE Head(s) \notin {10, 34} /\ WellEscaped(Tail(s))

\* C7: unescaping a written label value gives the snapshot's label value,
\* and the written value has no raw line feed and no unescaped quote
C7_EscapingRoundTrips ==
    calls >= 1 =>
        \A k \in 1..Len(buf) : IsSample(buf[k]) =>
            \A i \in 1..Len(buf[k].labels) :
                LET name    == buf[k].labels[i][1]
                    written == buf[k].labels[i][2]
                IN  /\ name \in DOMAIN input[1].Labels
                    /\ Unescape(written) = input[1].Labels[name]
                    /\ WellEscaped(written)

C7_Witness ==
    /\ calls >= 1
    /\ Len(input) = 1
    /\ input[1].Labels = (sItem :> <<92, 110, 34>>)
    /\ \E k \in 1..Len(buf) :
           IsSample(buf[k]) /\ buf[k].labels = <<<<sItem, <<92, 92, 110, 92, 34>>>>>>

\* C10 as stated: a call leaves the caller's slice as it was, and a second
\* call gives the text of the first
C10_SliceUnchanged ==
    calls >= 1 => (ms = input /\ (calls >= 2 => buf = prev))

\* C10: a call leaves every snapshot unchanged and the slice holding the
\* same snapshots, reordered by name then id with equal keys in their input
\* order (unchanged if they already were in that order); a second call
\* gives the text of the first
C10_SliceStablySortedInPlace ==
    calls >= 1 =>
        /\ \E f \in Permutations(1..Len(input)) :
               /\ ms = Permuted(input, f)
               /\ \A i, j \in 1..Len(ms) : i < j =>
                      \/ KeyBefore(ms[i], ms[j])
                      \/ KeyEqual(ms[i], ms[j]) /\ f[i] < f[j]
        /\ (\A i, j \in 1..Len(input) : i < j => ~KeyBefore(input[j], input[i]))
               => ms = input
        /\ calls >= 2 => buf = prev

C10_Witness ==
    /\ calls >= 2
    /\ ms # input
    /\ Len(input) = 3
    /\ KeyEqual(input[1], input[3])
    /\ input[1] # input[3]
    /\ buf # <<>>

----------------------------------------------------------------------------
(* properties of the registry and of the recording calls *)

InRegister(t) == pc[t] \in {"lookup", "create", "return"}
SubNames(name) == {name \o _counter, name \o _gauge, name \o _histogram}

\* every bundle returned for a name is the one the registry stores for it,
\* and the engine got each of the three sub-maps of a registered name once
C4_OneBundlePerName ==
    /\ \A t, u \in Threads : \A x \in held[t], y \in held[u] :
           x[1] = y[1] => x[2] = y[2]
    /\ \A t \in Threads : \A x \in held[t] :
           x[1] \in DOMAIN complexMetrics /\ complexMetrics[x[1]] = x[2]
    /\ \A name \in DOMAIN complexMetrics : \A sub \in SubNames(name) :
           /\ sub \in DOMAIN engine
           /\ engine[sub][1].owner = complexMetrics[name]
    /\ \A sub \in DOMAIN engine : Len(engine[sub]) = 1
    /\ \A t \in Threads : (pc[t] = "return" /\ local[t].ok) =>
           local[t].m = complexMetrics[local[t].name]

\* a registered name keeps its bundle and the engine keeps what the first
\* call registered
C4_RegistrationKept ==
    /\ \A name \in DOMAIN complexMetrics :
           name \in DOMAIN complexMetrics' /\ complexMetrics'[name] = complexMetrics[name]
    /\ \A sub \in DOMAIN engine :
           sub \in DOMAIN engine' /\ engine'[sub] = engine[sub]

\* C4: all RegisterComplexMap calls with one name return one bundle, created
\* by the first of them with one RegisterMap call per sub-map; later calls
\* return it whatever their help and buckets, and it is never replaced
C4_RegistrationIdempotent == []C4_OneBundlePerName /\ [][C4_RegistrationKept]_vars

C4_Witness ==
    /\ pc["t2"] = "return"
    /\ local["t2"].ok
    /\ local["t2"].name = sX
    /\ local["t2"].help # engine[sX \o _counter][1].help
    /\ <<sX, local["t2"].m>> \in held["t1"]
    /\ <<local["t2"].m, Label(<<110>>, <<105>>)>> \in DOMAIN series.counter
    /\ sY \in DOMAIN complexMetrics

\* what one complexMap.Add call may change
C5_AddStep ==
    (nAdds' = nAdds + 1 /\ lastAdd' # NoAdd) =>
        LET a   == lastAdd'
            key == <<a.it, a.l>>
            Old(map, zero) == IF key \in DOMAIN map THEN map[key] ELSE zero
            Others(map, new) ==
                \A k \in (DOMAIN map \cup DOMAIN new) \ {key} :
                    k \in DOMAIN map /\ k \in DOMAIN new /\ new[k] = map[k]
        IN  /\ Others(series.counter, series'.counter)
            /\ Others(series.gauge, series'.gauge)
            /\ Others(series.histogram, series'.histogram)
            /\ IF a.c # NaN /\ a.c > 0
               THEN /\ key \in DOMAIN series'.counter
                    /\ series'.counter[key] = Old(series.counter, 0) + a.c
               ELSE series'.counter = series.counter
            /\ IF a.g = NaN
               THEN key \in DOMAIN series'.gauge /\ series'.gauge[key] = NaN
               ELSE IF a.g # 0
               THEN /\ key \in DOMAIN series'.gauge
                    /\ series'.gauge[key] =
                           (IF Old(series.gauge, 0) = NaN THEN NaN
                            ELSE Old(series.gauge, 0) + a.g)
               ELSE series'.gauge = series.gauge
            /\ IF a.h >= 0
               THEN /\ key \in DOMAIN series'.histogram
                    /\ Len(series'.histogram[key]) = Len(Old(series.histogram, <<>>)) + 1
                    /\ SubSeq(series'.histogram[key], 1, Len(Old(series.histogram, <<>>)))
                           = Old(series.histogram, <<>>)
                    /\ LET v == series'.histogram[key][Len(series'.histogram[key])]
                       IN  v.sec * 1000000000 + v.nsec = a.h
               ELSE series'.histogram = series.histogram

\* C5: Add changes the counter series of (name, item) iff c > 0, the gauge
\* series iff g != 0, and puts the duration in seconds into the histogram
\* series iff d >= 0; a series whose condition is false is neither changed
\* nor created
C5_ConditionalUpdate == [][C5_AddStep]_vars

C5_Witness ==
    /\ nAdds = 2
    /\ lastAdd.c = 0 - 1 /\ lastAdd.g = 0 /\ lastAdd.h = 0
    /\ series.counter = EmptyMap
    /\ series.gauge = EmptyMap
    /\ DOMAIN series.histogram = {<<1, lastAdd.l>>}
    /\ series.histogram[<<1, lastAdd.l>>] = <<[sec |-> 0, nsec |-> 0]>>

\* the lock is held exactly while its holder is inside RegisterComplexMap,
\* and an idle thread can record and can scrape whoever holds the lock
C9_LockOnlyInRegister ==
    /\ \A t \in Threads : (mu = t) <=> InRegister(t)
    /\ \A t \in Threads :
           (pc[t] = "idle" /\ held[t] # {} /\ nAdds < MaxAdds) =>
               ENABLED complexMap_Add(t, RegAddArgs)
    /\ \A t \in Threads : (pc[t] = "idle" /\ nAdds < MaxAdds) =>
           /\ ENABLED counterMap_Add(t) /\ ENABLED counterMap_Set(t)
           /\ ENABLED gaugeMap_Add(t) /\ ENABLED gaugeMap_Set(t)
           /\ ENABLED histogramMap_Add(t)
    /\ \A t \in Threads : pc[t] = "idle" => ENABLED HttpHandler(t)

\* a recording call and a scrape leave the lock alone: the lock changes
\* hands only at the entry and at the return of RegisterComplexMap
C9_RecordingLeavesLock ==
    /\ (nAdds' # nAdds \/ series' # series \/ body' # body) => (mu' = mu /\ pc' = pc)
    /\ mu' # mu =>
           \E t \in Threads :
               \/ pc[t] = "idle" /\ pc'[t] = "lookup" /\ mu = NoProc /\ mu' = t
               \/ pc[t] = "return" /\ pc'[t] = "idle" /\ mu = t /\ mu' = NoProc

\* C9: the registry lock is taken only in RegisterComplexMap and released
\* when it returns; no recording call and no translation pass takes it or
\* waits for it
C9_LockNeverStallsRecording == []C9_LockOnlyInRegister /\ [][C9_RecordingLeavesLock]_vars

C9_Witness ==
    /\ mu = "t2"
    /\ pc["t2"] = "create"
    /\ pc["t1"] = "idle"
    /\ held["t1"] # {}
    /\ nAdds = 1
    /\ lastAdd.c = 1
    /\ body # <<>>

----------------------------------------------------------------------------
(* properties of the bucket generator *)

RECURSIVE Pow(_, _)
Pow(x, n) == IF n = 0 THEN 1 ELSE x * Pow(x, n - 1)

StrictlyIncreasing(s) == \A i, j \in 1..Len(s) : i < j => FLess(s[i], s[j])

\* C8 as stated: count >= 1, start > 0 and factor > 1 give the count
\* thresholds start * factor^i, strictly increasing; anything else panics
C8_GeometricOrPanic ==
    nbPc # "call" =>
        IF nbArgs.count >= 1 /\ FGreater(nbArgs.start, 0) /\ FGreater(nbArgs.factor, 1)
        THEN /\ nbPc = "returned"
             /\ Len(nbResult) = nbArgs.count
             /\ \A i \in 1..Len(nbResult) :
                    nbResult[i] = nbArgs.start * Pow(nbArgs.factor, i - 1)
             /\ StrictlyIncreasing(nbResult)
        ELSE nbPc = "panicked" /\ nbResult = NoBuckets

\* the product start * factor^n is a finite float64
Finite(start, factor, n) ==
    /\ start # PosInf
    /\ n > 0 => factor # PosInf
    /\ start * Pow(IF factor = PosInf THEN 1 ELSE factor, n) <= FMax

\* C8: NewBuckets panics, returning nothing, iff count < 1, start <= 0 or
\* factor <= 1 as float64 comparisons; otherwise it returns count
\* thresholds, and for start > 0 and factor > 1 they never decrease, the
\* i-th is start * factor^i and above its predecessor as long as that
\* product is a finite float64, and +Inf from the first product that
\* overflows
C8_GeometricWhileFinite ==
    nbPc # "call" =>
        /\ (nbPc = "panicked") <=>
               \/ nbArgs.count < 1
               \/ (nbArgs.start # NaN /\ nbArgs.start <= 0)
               \/ (nbArgs.factor # NaN /\ nbArgs.factor <= 1)
        /\ nbPc = "panicked" => nbResult = NoBuckets
        /\ nbPc = "returned" => Len(nbResult) = nbArgs.count
        /\ (nbPc = "returned" /\ nbArgs.start # NaN /\ nbArgs.factor # NaN) =>
               \A i \in 1..Len(nbResult) :
                   /\ i > 1 => nbResult[i - 1] <= nbResult[i]
                   /\ IF Finite(nbArgs.start, nbArgs.factor, i - 1)
                      THEN /\ nbResult[i] = nbArgs.start * Pow(nbArgs.factor, i - 1)
                           /\ i > 1 => nbResult[i - 1] < nbResult[i]
                      ELSE nbResult[i] = PosInf

C8_Witness ==
    /\ nbPc = "returned"
    /\ nbArgs = [start |-> 1, factor |-> 2, count |-> 5]
    /\ nbResult = <<1, 2, 4, 8, 16>>

====
